---- MODULE Spec2Model ----
(***************************************************************************)
(* A model of MPD's "simple" database plugin                               *)
(* (src/db/SimpleDatabasePlugin.cxx): the Open / Load / Check / Close      *)
(* lifecycle, the lock-guarded lookups, Visit and Save, run by a main      *)
(* thread, a client thread and the update thread that mutates the tree     *)
(* under db_lock; and of mikmod_decoder_file_decode                        *)
(* (src/decoder/plugins/MikmodDecoderPlugin.cxx), run by a decoder thread. *)
(***************************************************************************)
EXTENDS Integers, Sequences, FiniteSets, TLC

(***************************************************************************)
(* Bounds of the model.                                                    *)
(***************************************************************************)
\* number of songs the music directory can hold (all of them live in "a")
MaxSongs == 3
\* the filesystem clock stops here (each written file gets a later mtime)
MaxClock == 3
\* the frames a module plays at most before it ends or a command arrives
MaxFrames == 3

(***************************************************************************)
(* The universe of nodes.  A directory is named by its last path segment;  *)
(* DirHome gives the directory a node lives in.                            *)
(*     root / a / b        a holds the songs, b holds playlist p2          *)
(*     root / c            c holds playlist p1                             *)
(***************************************************************************)
Root == "root"
DirNames == {"a", "b", "c"}
AllDirs == {Root} \cup DirNames
DirHome == [a |-> Root, b |-> "a", c |-> Root]
SongName == <<"s1", "s2", "s3", "s4", "s5">>
Songs == {SongName[i] : i \in 1..MaxSongs}
SongHome == "a"
Playlists == {"p1", "p2"}
PlaylistHome == [p1 |-> "c", p2 |-> "b"]
\* the collation order of names (strcmp)
Rank == [a |-> 1, b |-> 2, c |-> 3, s1 |-> 1, s2 |-> 2, s3 |-> 3, s4 |-> 4, s5 |-> 5]

Range(s) == {s[i] : i \in 1..Len(s)}
Remove(s, x) == SelectSeq(s, LAMBDA y : y # x)

(***************************************************************************)
(* struct directory: per directory the ordered child directories, songs    *)
(* and playlists.  A directory that is not in the tree has three empty     *)
(* collections.                                                            *)
(***************************************************************************)
directory_new_root ==
    [children |-> [d \in AllDirs |-> <<>>],
     songs |-> [d \in AllDirs |-> <<>>],
     playlists |-> [d \in AllDirs |-> <<>>]]

RECURSIVE InTree(_, _)
InTree(t, d) ==
    \/ d = Root
    \/ /\ d \in Range(t.children[DirHome[d]])
       /\ InTree(t, DirHome[d])

directory_is_empty(t, d) ==
    /\ t.children[d] = <<>>
    /\ t.songs[d] = <<>>
    /\ t.playlists[d] = <<>>

RECURSIVE ClearSubtree(_, _)
ClearSubtree(t, d) ==
    LET below == {k \in DirNames : DirHome[k] = d}
        RECURSIVE ClearAll(_, _)
        ClearAll(u, ks) ==
            IF ks = {} THEN u
            ELSE LET k == CHOOSE x \in ks : TRUE
                 IN ClearAll(ClearSubtree(u, k), ks \ {k})
        u1 == ClearAll(t, below)
    IN [children |-> [u1.children EXCEPT ![d] = <<>>],
        songs |-> [u1.songs EXCEPT ![d] = <<>>],
        playlists |-> [u1.playlists EXCEPT ![d] = <<>>]]

\* directory_delete: unlink the directory from its parent and free it with
\* everything below it
directory_delete(t, d) ==
    LET u == ClearSubtree(t, d)
    IN [u EXCEPT !.children[DirHome[d]] = Remove(@, d)]

\* directory_prune_empty: bottom-up, a child is pruned first and deleted when
\* that left it empty
RECURSIVE directory_prune_empty(_, _)
RECURSIVE PruneChildren(_, _)
PruneChildren(t, cs) ==
    IF cs = <<>> THEN t
    ELSE LET child == Head(cs)
             t1 == directory_prune_empty(t, child)
             t2 == IF directory_is_empty(t1, child)
                   THEN directory_delete(t1, child)
                   ELSE t1
         IN PruneChildren(t2, Tail(cs))
directory_prune_empty(t, d) == PruneChildren(t, t.children[d])

\* insertion sort by Rank
RECURSIVE Insert(_, _)
Insert(s, x) ==
    IF s = <<>> THEN <<x>>
    ELSE IF Rank[x] < Rank[Head(s)] THEN <<x>> \o s
    ELSE <<Head(s)>> \o Insert(Tail(s), x)
RECURSIVE SortByRank(_)
SortByRank(s) == IF s = <<>> THEN <<>> ELSE Insert(SortByRank(Tail(s)), Head(s))
IsSorted(s) == \A i \in 1..(Len(s) - 1) : Rank[s[i]] < Rank[s[i + 1]]

\* directory_sort: the children by name and the songs, in every directory
directory_sort(t) ==
    [children |-> [d \in AllDirs |-> SortByRank(t.children[d])],
     songs |-> [d \in AllDirs |-> SortByRank(t.songs[d])],
     playlists |-> t.playlists]

(***************************************************************************)
(* Uris are sequences of path segments.                                    *)
(***************************************************************************)
Uris ==
    {<<>>, <<"a">>, <<"a", "b">>, <<"c">>, <<"b">>} \cup {<<"a", s>> : s \in Songs}

NULL == "NULL"

\* directory_lookup_directory: descend from the root, one exact name per segment
RECURSIVE Descend(_, _, _)
Descend(t, d, uri) ==
    IF uri = <<>> THEN d
    ELSE IF Head(uri) \in Range(t.children[d])
         THEN Descend(t, Head(uri), Tail(uri))
         ELSE NULL
directory_lookup_directory(t, uri) == Descend(t, Root, uri)

\* directory_lookup_song: the containing directory by all but the last segment,
\* then the song of that name in it
directory_lookup_song(t, uri) ==
    IF uri = <<>> THEN NULL
    ELSE LET d == directory_lookup_directory(t, SubSeq(uri, 1, Len(uri) - 1))
             base == uri[Len(uri)]
         IN IF d # NULL /\ base \in Range(t.songs[d]) THEN base ELSE NULL

(***************************************************************************)
(* directory::Walk.  A visitor is a callback that fails when it is invoked *)
(* on the node q.failOn; q.vd / q.vs / q.vp say which visitors the caller  *)
(* supplied (onDirectory / onSong / onPlaylist).  The accumulator holds    *)
(* the invocations made so far and whether all of them succeeded.          *)
(***************************************************************************)
NoMatch == [present |-> FALSE, songs |-> {}]
Matches == {NoMatch, [present |-> TRUE, songs |-> {SongName[1]}]}
locate_list_song_match(s, match) == s \in match.songs

Invoke(acc, x, q) ==
    IF acc.ok
    THEN [calls |-> Append(acc.calls, x), ok |-> x # q.failOn]
    ELSE acc

RECURSIVE WalkSongs(_, _, _)
WalkSongs(ss, q, acc) ==
    IF ss = <<>> \/ ~acc.ok \/ ~q.vs THEN acc
    ELSE WalkSongs(Tail(ss), q,
                   IF ~q.match.present \/ locate_list_song_match(Head(ss), q.match)
                   THEN Invoke(acc, Head(ss), q)
                   ELSE acc)

RECURSIVE WalkPlaylists(_, _, _)
WalkPlaylists(ps, q, acc) ==
    IF ps = <<>> \/ ~acc.ok \/ ~q.vp THEN acc
    ELSE WalkPlaylists(Tail(ps), q, Invoke(acc, Head(ps), q))

RECURSIVE Walk(_, _, _, _)
RECURSIVE WalkChildren(_, _, _, _)
WalkChildren(t, cs, q, acc) ==
    IF cs = <<>> \/ ~acc.ok THEN acc
    ELSE LET a1 == IF q.vd THEN Invoke(acc, Head(cs), q) ELSE acc
             a2 == IF q.recursive /\ a1.ok THEN Walk(t, Head(cs), q, a1) ELSE a1
         IN WalkChildren(t, Tail(cs), q, a2)
Walk(t, d, q, acc) ==
    WalkPlaylists(t.playlists[d], q,
                  WalkSongs(t.songs[d], q,
                            WalkChildren(t, t.children[d], q, acc)))

(***************************************************************************)
(* The filesystem facts about the backing path that the code asks for.     *)
(***************************************************************************)
FsFacts ==
    {f \in [exists : BOOLEAN, statable : BOOLEAN, isReg : BOOLEAN,
            readable : BOOLEAN, writable : BOOLEAN,
            parentStatOk : BOOLEAN, parentIsDir : BOOLEAN, parentWX : BOOLEAN] :
        \* what the code never asks is held at one value
        /\ f.exists => f.parentStatOk /\ f.parentIsDir /\ f.parentWX
        /\ ~f.exists => ~f.isReg /\ ~f.readable /\ ~f.writable
        /\ ~f.parentStatOk => ~f.parentIsDir
        /\ ~f.parentIsDir => ~f.parentWX}

\* access(path, F_OK) == 0
access_F_OK(f) == f.exists

\* fopen(path, "r") != NULL
fopen_r(f) == f.exists /\ f.readable

\* fopen(path, "w") != NULL: an existing regular file that is writable, or a
\* new file in a directory that allows it
fopen_w(f) ==
    \/ f.exists /\ f.isReg /\ f.writable
    \/ ~f.exists /\ f.parentStatOk /\ f.parentIsDir /\ f.parentWX

\* the facts after fopen(path, "w") succeeded: the file exists
Created(f) ==
    IF f.exists THEN f
    ELSE [f EXCEPT !.exists = TRUE, !.isReg = TRUE, !.readable = TRUE, !.writable = TRUE]

\* stat(path, &st) == 0
stat_ok(f) == f.exists /\ f.statable

\* Check that asks for the access rights before it looks at the file type
Check_AccessFirst(f) ==
    IF ~access_F_OK(f)
    THEN IF ~f.parentStatOk THEN "ParentUnstatable"
         ELSE IF ~f.parentIsDir THEN "ParentNotDirectory"
         ELSE IF ~f.parentWX THEN "ParentNotWritable"
         ELSE "Ok"
    ELSE IF ~f.statable THEN "PathUnstatable"
         ELSE IF ~(f.readable /\ f.writable) THEN "NotReadWritable"
         ELSE IF ~f.isReg THEN "NotRegularFile"
         ELSE "Ok"

\* SimpleDatabase::Check: "Ok" or the error it sets
Check(f) ==
    IF ~access_F_OK(f)
    THEN IF ~f.parentStatOk THEN "ParentUnstatable"
         ELSE IF ~f.parentIsDir THEN "ParentNotDirectory"
         ELSE IF ~f.parentWX THEN "ParentNotWritable"
         ELSE "Ok"
    ELSE IF ~f.statable THEN "PathUnstatable"
         ELSE IF ~f.isReg THEN "NotRegularFile"
         ELSE IF ~(f.readable /\ f.writable) THEN "NotReadWritable"
         ELSE "Ok"

\* every combination of answers access() and stat() can give Check
FsAnswers ==
    [exists : BOOLEAN, statable : BOOLEAN, isReg : BOOLEAN,
     readable : BOOLEAN, writable : BOOLEAN,
     parentStatOk : BOOLEAN, parentIsDir : BOOLEAN, parentWX : BOOLEAN]

\* the trees a database file can hold: db_save_internal only ever writes a
\* pruned and sorted tree
TreeOf(ss, hasB, hasC) ==
    [children |-> [d \in AllDirs |->
                      IF d = Root
                      THEN (IF ss # {} \/ hasB THEN <<"a">> ELSE <<>>)
                           \o (IF hasC THEN <<"c">> ELSE <<>>)
                      ELSE IF d = "a" /\ hasB THEN <<"b">>
                      ELSE <<>>],
     songs |-> [d \in AllDirs |->
                   IF d = SongHome
                   THEN SelectSeq(SubSeq(SongName, 1, MaxSongs), LAMBDA x : x \in ss)
                   ELSE <<>>],
     playlists |-> [d \in AllDirs |->
                       IF d = "c" /\ hasC THEN <<"p1">>
                       ELSE IF d = "b" /\ hasB THEN <<"p2">>
                       ELSE <<>>]]
SavedTrees == {TreeOf(x[1], x[2], x[3]) : x \in (SUBSET Songs) \X BOOLEAN \X BOOLEAN}

\* what db_load_internal may have put into the root when it fails half way
PartialTrees == {directory_new_root, TreeOf({SongName[1]}, FALSE, FALSE)}

VARIABLES
    root,       \* SimpleDatabase::root: "NULL", "live" (a tree) or "freed" (dangling)
    liveTrees,  \* trees allocated by directory_new_root and not yet freed
    tree,       \* the contents of the tree root points to
    lock,       \* who holds db_mutex: "free", "main", "client" or "update"
    mtime,      \* SimpleDatabase::mtime
    fs,         \* the filesystem facts of the backing path
    disk,       \* the backing file: "absent", "empty", "partial", "complete" or "torn"
    fmtime,     \* the backing file's st_mtime
    mpc,        \* main thread: where it is in Open / Save / Close
    mop,        \* main thread: the operation it is in or has returned from
    mret,       \* main thread: the operation's return value
    merr,       \* main thread: *error_r
    loadOk,     \* Open: whether Load succeeded ("n/a" outside Open)
    warned,     \* Open: the load error went to g_warning
    checks,     \* main thread: the calls of Check its operation has made
    fp,         \* Save: the stdio stream, [err, buffered]
    pre,        \* Save: the tree and mtime when Save was called
    clean,      \* a Save has pruned the tree and nothing has changed it since
    pruned,     \* Save: the directories its prune step removed
    upc,        \* update thread: "idle" or "locked"
    cpc,        \* client thread: where it is in GetSong / LookupDirectory / Visit
    cop,        \* client thread: the operation it is in or has returned from
    q,          \* client thread: the uri, selection and visitors it was called with
    dirh,       \* client thread: the directory LookupDirectory returned
    songh,      \* client thread: the song GetSong returned
    calls,      \* client thread: the visitor invocations so far, in order
    cret,       \* client thread: the operation's return value (a bool)
    cerr,       \* client thread: *error_r
    freed,      \* the handles among "dir", "song" whose node has been freed
    uaf,        \* a freed node has been read
    dpc,        \* decoder thread: where it is in mikmod_decoder_file_decode
    handle,     \* mikmod: the MODULE *handle, "null", "loaded" or "freed"
    dcmd,       \* mikmod: the local DecoderCommand cmd
    active,     \* mikmod: what Player_Active() returns
    dret,       \* mikmod: the local ret, the bytes VC_WriteBytes produced
    dlog        \* mikmod: the calls made so far, in order

treeVars == <<root, liveTrees, tree, lock, mtime>>
fsVars == <<fs, disk, fmtime>>
mainVars == <<mpc, mop, mret, merr, loadOk, warned, checks, fp, pre, clean, pruned>>
decVars == <<dpc, handle, dcmd, active, dret, dlog>>
clientVars == <<cpc, cop, q, dirh, songh, calls, cret, cerr, uaf>>
vars == <<treeVars, fsVars, mainVars, upc, decVars, clientVars, freed>>

NoFp == [err |-> FALSE, buffered |-> FALSE]
NoPre == [tree |-> directory_new_root, mtime |-> 0, clean |-> FALSE]
DirsIn(t) == {d \in DirNames : InTree(t, d)}
NodesIn(t) ==
    DirsIn(t) \cup UNION {Range(t.songs[d]) \cup Range(t.playlists[d]) : d \in AllDirs}

\* the handles the client holds, and those that point into what a change of the
\* tree from t to t2 has freed
Held == {h \in {"dir", "song"} : (IF h = "dir" THEN dirh ELSE songh) # NULL}
FreedBy(t, t2) ==
    {h \in Held : (IF h = "dir" THEN dirh ELSE songh) \in NodesIn(t) \ NodesIn(t2)}

(***************************************************************************)
(* SimpleDatabase::Load, called by Open on the fresh root with mtime = 0.  *)
(* The outcomes: [ok, tree, mtime, err].                                   *)
(***************************************************************************)
Load(f, dk, ft) ==
    IF ~fopen_r(f)
    THEN {[ok |-> FALSE, tree |-> directory_new_root, mtime |-> 0, err |-> "LoadOpenFailed"]}
    ELSE IF f.isReg /\ dk = "complete"
    THEN {[ok |-> TRUE, tree |-> t, mtime |-> IF stat_ok(f) THEN ft ELSE 0, err |-> "none"] :
             t \in SavedTrees}
    ELSE {[ok |-> FALSE, tree |-> t, mtime |-> 0, err |-> "LoadParseFailed"] :
             t \in PartialTrees}

\* Open that keeps the root Load has filled when it falls back
OpenOutcome_KeepPartial(f, lr, live) ==
    IF lr.ok
    THEN [root |-> "live", tree |-> lr.tree, live |-> live + 1, mtime |-> lr.mtime,
          ret |-> TRUE, err |-> "none", warned |-> FALSE,
          checks |-> 0]
    ELSE IF Check(f) # "Ok"
    THEN [root |-> "freed", tree |-> directory_new_root, live |-> live, mtime |-> lr.mtime,
          ret |-> FALSE, err |-> Check(f), warned |-> TRUE,
          checks |-> 1]
    ELSE [root |-> "live", tree |-> lr.tree, live |-> live + 1, mtime |-> lr.mtime,
          ret |-> TRUE, err |-> "none", warned |-> TRUE,
          checks |-> 1]

\* Open that runs Check whether Load succeeded or not
OpenOutcome_AlwaysCheck(f, lr, live) ==
    IF Check(f) # "Ok"
    THEN [root |-> "freed", tree |-> directory_new_root, live |-> live, mtime |-> lr.mtime,
          ret |-> FALSE, err |-> Check(f), warned |-> ~lr.ok,
          checks |-> 1]
    ELSE [root |-> "live", tree |-> IF lr.ok THEN lr.tree ELSE directory_new_root,
          live |-> live + 1, mtime |-> lr.mtime,
          ret |-> TRUE, err |-> "none", warned |-> ~lr.ok,
          checks |-> 1]

\* Open that hands Load's error to the caller when Check fails
OpenOutcome_LoadError(f, lr, live) ==
    IF lr.ok
    THEN [root |-> "live", tree |-> lr.tree, live |-> live + 1, mtime |-> lr.mtime,
          ret |-> TRUE, err |-> "none", warned |-> FALSE,
          checks |-> 0]
    ELSE IF Check(f) # "Ok"
    THEN [root |-> "freed", tree |-> directory_new_root, live |-> live, mtime |-> lr.mtime,
          ret |-> FALSE, err |-> lr.err, warned |-> FALSE,
          checks |-> 1]
    ELSE [root |-> "live", tree |-> directory_new_root, live |-> live + 1, mtime |-> lr.mtime,
          ret |-> TRUE, err |-> "none", warned |-> TRUE,
          checks |-> 1]

(***************************************************************************)
(* SimpleDatabase::Open, given Load's outcome lr: the new root, tree,      *)
(* number of live trees, mtime, return value, *error_r and warning.        *)
(***************************************************************************)
OpenOutcome(f, lr, live) ==
    IF lr.ok
    THEN [root |-> "live", tree |-> lr.tree, live |-> live + 1, mtime |-> lr.mtime,
          ret |-> TRUE, err |-> "none", warned |-> FALSE,
          checks |-> 0]
    ELSE IF Check(f) # "Ok"
    THEN [root |-> "freed", tree |-> directory_new_root, live |-> live, mtime |-> lr.mtime,
          ret |-> FALSE, err |-> Check(f), warned |-> TRUE,
          checks |-> 1]
    ELSE [root |-> "live", tree |-> directory_new_root, live |-> live + 1, mtime |-> lr.mtime,
          ret |-> TRUE, err |-> "none", warned |-> TRUE,
          checks |-> 1]

OpenCall ==
    /\ mpc = "idle"
    /\ root # "live"
    /\ \E lr \in Load(fs, disk, fmtime) :
          LET o == OpenOutcome(fs, lr, liveTrees)
          IN /\ root' = o.root
             /\ tree' = o.tree
             /\ liveTrees' = o.live
             /\ mtime' = o.mtime
             /\ mret' = o.ret
             /\ merr' = o.err
             /\ warned' = o.warned
             /\ checks' = o.checks
             /\ loadOk' = IF lr.ok THEN "yes" ELSE "no"
    /\ mpc' = "ret"
    /\ mop' = "Open"
    /\ clean' = FALSE
    /\ UNCHANGED <<lock, fsVars, fp, pre, pruned, upc, decVars, clientVars, freed>>

\* SimpleDatabase::Check(error_r), called on its own (before the first use)
CheckCall ==
    /\ mpc = "idle"
    /\ root # "live"
    /\ mpc' = "ret"
    /\ mop' = "Check"
    /\ mret' = (Check(fs) = "Ok")
    /\ merr' = IF Check(fs) = "Ok" THEN "none" ELSE Check(fs)
    /\ checks' = 1
    /\ UNCHANGED <<treeVars, fsVars, loadOk, warned, fp, pre, clean, pruned, upc, decVars, clientVars,
                   freed>>

(***************************************************************************)
(* SimpleDatabase::Close                                                   *)
(***************************************************************************)
CloseCall ==
    /\ mpc = "idle"
    /\ root = "live"
    /\ root' = "freed"
    /\ liveTrees' = liveTrees - 1
    /\ tree' = directory_new_root
    /\ freed' = freed \cup Held
    /\ mpc' = "ret"
    /\ mop' = "Close"
    /\ mret' = TRUE
    /\ merr' = "none"
    /\ clean' = FALSE
    /\ UNCHANGED <<lock, mtime, fsVars, loadOk, warned, checks, fp, pre, pruned, upc, decVars, clientVars>>

(***************************************************************************)
(* SimpleDatabase::Save                                                    *)
(***************************************************************************)
\* Save that forgets directory_sort, and Save that forgets directory_prune_empty
SaveLocked_NoSort(t) == directory_prune_empty(t, Root)
SaveLocked_NoPrune(t) == directory_sort(t)

\* what Save does to the tree between db_lock and db_unlock
SaveLocked(t) == directory_sort(directory_prune_empty(t, Root))

SaveCall ==
    /\ mpc = "idle"
    /\ root = "live"
    /\ fmtime < MaxClock
    /\ mpc' = "s_lock"
    /\ mop' = "Save"
    /\ mret' = FALSE
    /\ merr' = "none"
    /\ pre' = [tree |-> tree, mtime |-> mtime, clean |-> clean]
    /\ UNCHANGED <<treeVars, fsVars, loadOk, warned, checks, fp, clean, pruned, upc, decVars, clientVars, freed>>

\* db_lock()
SaveLock ==
    /\ mpc = "s_lock"
    /\ lock = "free"
    /\ lock' = "main"
    /\ mpc' = "s_prune"
    /\ UNCHANGED <<root, liveTrees, tree, mtime, fsVars, mop, mret, merr, loadOk, warned, checks,
                   fp, pre, clean, pruned, upc, decVars, clientVars, freed>>

\* Save that keeps the lock while it writes the file
SavePrune_KeepLock ==
    /\ mpc = "s_prune"
    /\ tree' = SaveLocked(tree)
    /\ pruned' = DirsIn(tree) \ DirsIn(tree')
    /\ freed' = freed \cup FreedBy(tree, tree')
    /\ clean' = TRUE
    /\ mpc' = "s_fopen"
    /\ UNCHANGED <<root, liveTrees, lock, mtime, fsVars, mop, mret, merr, loadOk, warned, checks, fp,
                   pre, upc, decVars, clientVars>>

\* directory_prune_empty(root); directory_sort(root); db_unlock()
SavePrune ==
    /\ mpc = "s_prune"
    /\ tree' = SaveLocked(tree)
    /\ pruned' = DirsIn(tree) \ DirsIn(tree')
    /\ freed' = freed \cup FreedBy(tree, tree')
    /\ clean' = TRUE
    /\ lock' = "free"
    /\ mpc' = "s_fopen"
    /\ UNCHANGED <<root, liveTrees, mtime, fsVars, mop, mret, merr, loadOk, warned, checks, fp,
                   pre, upc, decVars, clientVars>>

\* fopen(path, "w")
SaveFopen ==
    /\ mpc = "s_fopen"
    /\ IF fopen_w(fs)
       THEN /\ fs' = Created(fs)
            /\ disk' = "empty"
            /\ fmtime' = fmtime + 1
            /\ mpc' = "s_encode"
            /\ UNCHANGED <<mret, merr>>
       ELSE /\ merr' = "SaveOpenFailed"
            /\ mret' = FALSE
            /\ mpc' = "ret"
            /\ UNCHANGED fsVars
    /\ UNCHANGED <<treeVars, mop, loadOk, warned, checks, fp, pre, clean, pruned, upc, decVars, clientVars, freed>>

\* db_save_internal(fp, root): the stream may hold the tail of the data in its
\* buffer, and a write(2) of a full buffer may fail.  It runs after db_unlock():
\* next to a mutator inside its critical section it reads a tree that is being
\* changed, and what it writes may be no tree at all ("torn").
SaveEncode ==
    /\ mpc = "s_encode"
    /\ \E o \in {[err |-> FALSE, buffered |-> FALSE, disk |-> "complete"],
                 [err |-> FALSE, buffered |-> TRUE, disk |-> "empty"],
                 [err |-> FALSE, buffered |-> TRUE, disk |-> "partial"],
                 [err |-> TRUE, buffered |-> TRUE, disk |-> "empty"],
                 [err |-> TRUE, buffered |-> TRUE, disk |-> "partial"]}
                \cup (IF lock = "update"
                      THEN {[err |-> FALSE, buffered |-> FALSE, disk |-> "torn"]}
                      ELSE {}) :
          /\ fp' = [err |-> o.err, buffered |-> o.buffered]
          /\ disk' = o.disk
    /\ mpc' = "s_close"
    /\ UNCHANGED <<treeVars, fs, fmtime, mop, mret, merr, loadOk, warned, checks, pre, clean,
                   pruned, upc, decVars, clientVars, freed>>

\* Save that never reads the file's new mtime
SaveFinish_NoStat(f, stream, dk, ft, mt, flushOk) ==
    IF stream.err
    THEN [disk |-> dk, mtime |-> mt, ret |-> FALSE, err |-> "SaveWriteFailed"]
    ELSE [disk |-> IF dk = "torn" THEN dk
                   ELSE IF ~stream.buffered \/ flushOk THEN "complete" ELSE dk,
          mtime |-> mt,
          ret |-> TRUE, err |-> "none"]

\* Save from ferror(fp) on, given whether fclose's flush of the buffer worked:
\* the new [disk, mtime, ret, err]
SaveFinish(f, stream, dk, ft, mt, flushOk) ==
    IF stream.err
    THEN [disk |-> dk, mtime |-> mt, ret |-> FALSE, err |-> "SaveWriteFailed"]
    ELSE [disk |-> IF dk = "torn" THEN dk
                   ELSE IF ~stream.buffered \/ flushOk THEN "complete" ELSE dk,
          mtime |-> IF stat_ok(f) THEN ft ELSE mt,
          ret |-> TRUE, err |-> "none"]

SaveClose ==
    /\ mpc = "s_close"
    /\ \E flushOk \in BOOLEAN :
          LET o == SaveFinish(fs, fp, disk, fmtime, mtime, flushOk)
          IN /\ disk' = o.disk
             /\ mtime' = o.mtime
             /\ mret' = o.ret
             /\ merr' = o.err
    /\ fp' = NoFp
    /\ mpc' = "ret"
    /\ UNCHANGED <<root, liveTrees, tree, lock, fs, fmtime, mop, loadOk, warned, checks, pre,
                   clean, pruned, upc, decVars, clientVars, freed>>

\* the caller takes the result
MainReturn ==
    /\ mpc = "ret"
    /\ mpc' = "idle"
    /\ mop' = "none"
    /\ mret' = FALSE
    /\ merr' = "none"
    /\ loadOk' = "n/a"
    /\ warned' = FALSE
    /\ checks' = 0
    /\ pre' = NoPre
    /\ pruned' = {}
    /\ UNCHANGED <<treeVars, fsVars, fp, clean, upc, decVars, clientVars, freed>>

(***************************************************************************)
(* The update thread: it changes the tree while it holds db_lock.          *)
(***************************************************************************)
Mutations(t) ==
    {[t EXCEPT !.children[DirHome[d]] = Append(@, d)] :
        d \in {x \in DirNames : ~InTree(t, x) /\ InTree(t, DirHome[x])}}
    \cup {directory_delete(t, d) : d \in DirsIn(t)}
    \cup {[t EXCEPT !.songs[SongHome] = Append(@, s)] :
            s \in {x \in Songs : InTree(t, SongHome) /\ x \notin Range(t.songs[SongHome])}}
    \cup {[t EXCEPT !.songs[SongHome] = Remove(@, s)] : s \in Range(t.songs[SongHome])}
    \cup {[t EXCEPT !.playlists[PlaylistHome[p]] = Append(@, p)] :
            p \in {x \in Playlists : InTree(t, PlaylistHome[x])
                                     /\ x \notin Range(t.playlists[PlaylistHome[x]])}}
    \cup {[t EXCEPT !.playlists[PlaylistHome[p]] = Remove(@, p)] :
            p \in {x \in Playlists : x \in Range(t.playlists[PlaylistHome[x]])}}

UpdateLock ==
    /\ upc = "idle"
    /\ root = "live"
    /\ lock = "free"
    /\ lock' = "update"
    /\ upc' = "locked"
    /\ UNCHANGED <<root, liveTrees, tree, mtime, fsVars, mainVars, clientVars, freed, decVars>>

UpdateMutate ==
    /\ upc = "locked"
    /\ \E t \in Mutations(tree) : tree' = t
    /\ freed' = freed \cup FreedBy(tree, tree')
    /\ clean' = FALSE
    /\ UNCHANGED <<root, liveTrees, lock, mtime, fsVars, mpc, mop, mret, merr, loadOk,
                   warned, checks, fp, pre, pruned, upc, decVars, clientVars>>

UpdateUnlock ==
    /\ upc = "locked"
    /\ lock' = "free"
    /\ upc' = "idle"
    /\ UNCHANGED <<root, liveTrees, tree, mtime, fsVars, mainVars, clientVars, freed, decVars>>

(***************************************************************************)
(* The client thread: GetSong, LookupDirectory and Visit.                  *)
(***************************************************************************)
Nodes == AllDirs \cup Songs \cup Playlists
NoQuery ==
    [uri |-> <<>>, recursive |-> FALSE, match |-> NoMatch,
     vd |-> FALSE, vs |-> FALSE, vp |-> FALSE, failOn |-> NULL]
\* every selection and set of visitors Visit is called with
Queries ==
    [uri : Uris, recursive : BOOLEAN, match : Matches,
     vd : BOOLEAN, vs : BOOLEAN, vp : BOOLEAN, failOn : {NULL} \cup Nodes]
\* the queries run next to the update thread: all visitors, none of them failing
ConcQueries ==
    {x \in Queries : x.vd /\ x.vs /\ x.vp /\ x.failOn = NULL /\ ~x.match.present}

\* SimpleDatabase::GetSong(uri, error_r)
GetSongCall ==
    /\ cpc = "idle"
    /\ root = "live"
    /\ \E u \in Uris : q' = [NoQuery EXCEPT !.uri = u]
    /\ cop' = "GetSong"
    /\ cpc' = "gs_lock"
    /\ UNCHANGED <<treeVars, fsVars, mainVars, upc, decVars, dirh, songh, calls, cret, cerr, uaf, freed>>

\* db_lock() in GetSong
GetSongLock ==
    /\ cpc = "gs_lock"
    /\ lock = "free"
    /\ lock' = "client"
    /\ cpc' = "gs_body"
    /\ UNCHANGED <<root, liveTrees, tree, mtime, fsVars, mainVars, upc, decVars, cop, q, dirh, songh,
                   calls, cret, cerr, uaf, freed>>

\* GetSong that reports a missing song as a null result with no error
GetSongResult_NoError(t, uri, wantErr) ==
    [song |-> directory_lookup_song(t, uri), err |-> "none"]

\* what GetSong returns and sets: [song, err]; Visit passes no error_r
GetSongResult(t, uri, wantErr) ==
    LET song == directory_lookup_song(t, uri)
    IN [song |-> song,
        err |-> IF song = NULL /\ wantErr THEN "NotFound: No such song" ELSE "none"]

\* directory_lookup_song(root, uri); db_unlock(); return.  A root that Close has
\* freed is read all the same, and anything may be found in it.
GetSongBody ==
    /\ cpc = "gs_body"
    /\ \E r \in IF root = "live"
                THEN {GetSongResult(tree, q.uri, cop = "GetSong")}
                ELSE {[song |-> NULL, err |-> "none"],
                      [song |-> SongName[1], err |-> "none"]} :
          /\ songh' = r.song
          /\ cerr' = r.err
          /\ cret' = (r.song # NULL)
          /\ freed' = (freed \ {"song"}) \cup
                         (IF root # "live" /\ r.song # NULL THEN {"song"} ELSE {})
    /\ uaf' = (uaf \/ root # "live")
    /\ lock' = "free"
    /\ cpc' = IF cop = "GetSong" THEN "ret" ELSE "v_song"
    /\ UNCHANGED <<root, liveTrees, tree, mtime, fsVars, mainVars, upc, decVars, cop, q, dirh, calls>>

\* SimpleDatabase::LookupDirectory(uri)
LookupDirectoryCall ==
    /\ cpc = "idle"
    /\ root = "live"
    /\ \E u \in Uris : q' = [NoQuery EXCEPT !.uri = u]
    /\ cop' = "LookupDirectory"
    /\ cpc' = "ld_lock"
    /\ UNCHANGED <<treeVars, fsVars, mainVars, upc, decVars, dirh, songh, calls, cret, cerr, uaf, freed>>

\* db_lock() in LookupDirectory
LookupDirectoryLock ==
    /\ cpc = "ld_lock"
    /\ lock = "free"
    /\ lock' = "client"
    /\ cpc' = "ld_body"
    /\ UNCHANGED <<root, liveTrees, tree, mtime, fsVars, mainVars, upc, decVars, cop, q, dirh, songh,
                   calls, cret, cerr, uaf, freed>>

\* directory_lookup_directory(root, uri); db_unlock(); return
LookupDirectoryBody ==
    /\ cpc = "ld_body"
    /\ \E d \in IF root = "live"
                THEN {directory_lookup_directory(tree, q.uri)}
                ELSE {NULL, Root} :
          /\ dirh' = d
          /\ cret' = (d # NULL)
          /\ freed' = (freed \ {"dir"}) \cup
                         (IF root # "live" /\ d # NULL THEN {"dir"} ELSE {})
    /\ uaf' = (uaf \/ root # "live")
    /\ lock' = "free"
    /\ cpc' = IF cop = "LookupDirectory" THEN "ret" ELSE "v_decide"
    /\ UNCHANGED <<root, liveTrees, tree, mtime, fsVars, mainVars, upc, decVars, cop, q, songh, calls,
                   cerr>>

\* SimpleDatabase::Visit(selection, visit_directory, visit_song, visit_playlist,
\* error_r): it starts by calling LookupDirectory(selection.uri)
VisitCallFrom(Q) ==
    /\ cpc = "idle"
    /\ root = "live"
    /\ \E x \in Q : q' = x
    /\ cop' = "Visit"
    /\ cpc' = "ld_lock"
    /\ UNCHANGED <<treeVars, fsVars, mainVars, upc, decVars, dirh, songh, calls, cret, cerr, uaf, freed>>
\* the queries run next to Save: with and without a song visitor, none failing or
\* one failing on the directory "a" or on the song s1
LockQueries ==
    {x \in Queries : /\ x.vd /\ x.vp /\ ~x.match.present
                     /\ x.failOn \in {NULL, "a", SongName[1]}}
VisitCall == VisitCallFrom(Queries)
VisitCallLock == VisitCallFrom(LockQueries)
VisitCallConc == VisitCallFrom(ConcQueries)

\* directory == NULL: with a song visitor Visit calls GetSong(selection.uri, NULL),
\* without one it fails
VisitNoDirectory ==
    /\ cpc = "v_decide"
    /\ dirh = NULL
    /\ IF q.vs
       THEN /\ cpc' = "gs_lock"
            /\ UNCHANGED <<cret, cerr>>
       ELSE /\ cpc' = "ret"
            /\ cret' = FALSE
            /\ cerr' = "NotFound: No such directory"
    /\ UNCHANGED <<treeVars, fsVars, mainVars, upc, decVars, cop, q, dirh, songh, calls, uaf, freed>>

\* Visit that visits the song whatever selection.match says
VisitSongResult_IgnoreMatch(x, song, matched) ==
    IF song # NULL
    THEN [calls |-> <<song>>, ret |-> song # x.failOn,
          err |-> IF song # x.failOn THEN "none" ELSE "visitor"]
    ELSE [calls |-> <<>>, ret |-> FALSE, err |-> "NotFound: No such directory"]

\* the rest of the directory == NULL branch, given the song GetSong returned and
\* what locate_list_song_match says of it: [calls, ret, err]
VisitSongResult(x, song, matched) ==
    IF song # NULL /\ (~x.match.present \/ matched)
    THEN [calls |-> <<song>>, ret |-> song # x.failOn,
          err |-> IF song # x.failOn THEN "none" ELSE "visitor"]
    ELSE [calls |-> <<>>, ret |-> FALSE, err |-> "NotFound: No such directory"]

\* a song that has been freed since GetSong returned it is matched and visited
\* all the same: the match reads freed memory
VisitSong ==
    /\ cpc = "v_song"
    /\ \E matched \in IF "song" \in freed
                      THEN BOOLEAN
                      ELSE {locate_list_song_match(songh, q.match)} :
          LET r == VisitSongResult(q, songh, matched)
          IN /\ calls' = r.calls
             /\ cret' = r.ret
             /\ cerr' = r.err
    /\ uaf' = (uaf \/ "song" \in freed)
    /\ cpc' = "ret"
    /\ UNCHANGED <<treeVars, fsVars, mainVars, upc, decVars, cop, q, dirh, songh, freed>>

\* Visit that goes on to the walk although visit_directory failed on the target
VisitTargetResult_IgnoreFailure(x, d) ==
    IF x.recursive /\ x.vd
    THEN [calls |-> <<d>>, ok |-> TRUE]
    ELSE [calls |-> <<>>, ok |-> TRUE]

\* Visit that never visits the target directory itself
VisitTargetResult_NeverTarget(x, d) == [calls |-> <<>>, ok |-> TRUE]

\* Visit that visits the target directory whether the selection is recursive or not
VisitTargetResult_AlwaysTarget(x, d) ==
    IF x.vd
    THEN [calls |-> <<d>>, ok |-> d # x.failOn]
    ELSE [calls |-> <<>>, ok |-> TRUE]

\* the directory was found: a recursive selection visits the directory itself
\* first, [calls, ok]
VisitTargetResult(x, d) ==
    IF x.recursive /\ x.vd
    THEN [calls |-> <<d>>, ok |-> d # x.failOn]
    ELSE [calls |-> <<>>, ok |-> TRUE]

VisitTarget ==
    /\ cpc = "v_decide"
    /\ dirh # NULL
    /\ LET r == VisitTargetResult(q, dirh)
       IN /\ calls' = r.calls
          /\ uaf' = (uaf \/ (r.calls # <<>> /\ "dir" \in freed))
          /\ IF r.ok
             THEN /\ cpc' = "v_walk_lock"
                  /\ UNCHANGED <<cret, cerr>>
             ELSE /\ cpc' = "ret"
                  /\ cret' = FALSE
                  /\ cerr' = "visitor"
    /\ UNCHANGED <<treeVars, fsVars, mainVars, upc, decVars, cop, q, dirh, songh, freed>>

\* db_lock() before the walk
VisitWalkLock ==
    /\ cpc = "v_walk_lock"
    /\ lock = "free"
    /\ lock' = "client"
    /\ cpc' = "v_walk"
    /\ UNCHANGED <<root, liveTrees, tree, mtime, fsVars, mainVars, upc, decVars, cop, q, dirh, songh,
                   calls, cret, cerr, uaf, freed>>

\* directory->Walk(...); db_unlock(); return ret.  A directory that has been
\* freed since LookupDirectory returned it is walked all the same.
VisitWalk ==
    /\ cpc = "v_walk"
    /\ \E acc \in IF "dir" \in freed \/ root # "live"
                  THEN {[calls |-> calls, ok |-> b] : b \in BOOLEAN}
                  ELSE {Walk(tree, dirh, q, [calls |-> calls, ok |-> TRUE])} :
          /\ calls' = acc.calls
          /\ cret' = acc.ok
          /\ cerr' = IF acc.ok THEN "none" ELSE "visitor"
    /\ uaf' = (uaf \/ "dir" \in freed \/ root # "live")
    /\ lock' = "free"
    /\ cpc' = "ret"
    /\ UNCHANGED <<root, liveTrees, tree, mtime, fsVars, mainVars, upc, decVars, cop, q, dirh, songh,
                   freed>>

\* the caller takes the result and lets go of the handle
ClientReturn ==
    /\ cpc = "ret"
    /\ cpc' = "idle"
    /\ cop' = "none"
    /\ q' = NoQuery
    /\ dirh' = NULL
    /\ songh' = NULL
    /\ calls' = <<>>
    /\ cret' = FALSE
    /\ cerr' = "none"
    /\ uaf' = FALSE
    /\ freed' = {}
    /\ UNCHANGED <<treeVars, fsVars, mainVars, upc, decVars>>

(***************************************************************************)
(* mikmod_decoder_file_decode (decoder/plugins/MikmodDecoderPlugin.cxx)    *)
(***************************************************************************)
MIKMOD_FRAME_SIZE == 4096
\* enum class DecoderCommand
DecoderCommands == {"NONE", "START", "STOP", "SEEK"}
dbVars == <<treeVars, fsVars, mainVars, upc, clientVars, freed>>

InitDecoder ==
    /\ dpc = "idle"
    /\ handle = "null"
    /\ dcmd = "NONE"
    /\ active = FALSE
    /\ dret = 0
    /\ dlog = <<>>

\* an entry of the log: the call, and for decoder_data the command it returned
\* and what Player_Active() says after the frame
Called(name, c, a) == [call |-> name, cmd |-> c, active |-> a]

\* handle = Player_Load(path2, 128, 0); a null handle is logged and returned from
PlayerLoad ==
    /\ dpc = "idle"
    /\ \E ok \in BOOLEAN :
          /\ handle' = IF ok THEN "loaded" ELSE "null"
          /\ dpc' = IF ok THEN "init" ELSE "done"
    /\ dlog' = <<>>
    /\ UNCHANGED <<dbVars, dcmd, active, dret>>

\* handle->loop = mikmod_loop; decoder_initialized(decoder, audio_format, ...)
DecoderInitialized ==
    /\ dpc = "init"
    /\ dlog' = Append(dlog, Called("decoder_initialized", "NONE", active))
    /\ dpc' = "start"
    /\ UNCHANGED <<dbVars, handle, dcmd, active, dret>>

\* Player_Start(handle); cmd = DecoderCommand::NONE.  A module with nothing to
\* play is not active even now.
PlayerStart ==
    /\ dpc = "start"
    /\ \E a \in BOOLEAN :
          /\ active' = a
          /\ dlog' = Append(dlog, Called("Player_Start", "NONE", a))
    /\ dcmd' = "NONE"
    /\ dpc' = "loop"
    /\ UNCHANGED <<dbVars, handle, dret>>

\* a loop that goes on while the player is active, whatever the command
LoopContinues_IgnoreCommand(c, a) == a

\* while (cmd == DecoderCommand::NONE && Player_Active())
LoopContinues(c, a) == c = "NONE" /\ a

LoopTest ==
    /\ dpc = "loop"
    /\ dpc' = IF LoopContinues(dcmd, active) THEN "frame" ELSE "stop"
    /\ UNCHANGED <<dbVars, handle, dcmd, active, dret, dlog>>

\* ret = VC_WriteBytes(buffer, sizeof(buffer)); cmd = decoder_data(decoder,
\* nullptr, buffer, ret, 0).  Mixing a frame may end the module, and the client
\* may have sent a command; after MaxFrames frames one of the two has happened.
DecodeFrame ==
    /\ dpc = "frame"
    /\ \E n \in {0, MIKMOD_FRAME_SIZE}, a \in BOOLEAN, c \in DecoderCommands :
          /\ Len(SelectSeq(dlog, LAMBDA e : e.call = "decoder_data")) + 1 >= MaxFrames
                => (~a \/ c # "NONE")
          /\ dret' = n
          /\ active' = a
          /\ dcmd' = c
          /\ dlog' = Append(dlog, Called("decoder_data", c, a))
    /\ dpc' = "loop"
    /\ UNCHANGED <<dbVars, handle>>

\* Player_Stop()
PlayerStop ==
    /\ dpc = "stop"
    /\ active' = FALSE
    /\ dlog' = Append(dlog, Called("Player_Stop", dcmd, FALSE))
    /\ dpc' = "free"
    /\ UNCHANGED <<dbVars, handle, dcmd, dret>>

\* Player_Free(handle); return
PlayerFree ==
    /\ dpc = "free"
    /\ handle' = "freed"
    /\ dlog' = Append(dlog, Called("Player_Free", dcmd, active))
    /\ dpc' = "done"
    /\ UNCHANGED <<dbVars, dcmd, active, dret>>

\* the decoder thread takes the next song
DecodeReturn ==
    /\ dpc = "done"
    /\ dpc' = "idle"
    /\ handle' = "null"
    /\ dcmd' = "NONE"
    /\ active' = FALSE
    /\ dret' = 0
    /\ dlog' = <<>>
    /\ UNCHANGED dbVars

(***************************************************************************)
(* Specifications.                                                         *)
(***************************************************************************)
InitBase ==
    /\ root = "NULL"
    /\ liveTrees = 0
    /\ tree = directory_new_root
    /\ lock = "free"
    /\ mtime = 0
    /\ mpc = "idle"
    /\ mop = "none"
    /\ mret = FALSE
    /\ merr = "none"
    /\ loadOk = "n/a"
    /\ warned = FALSE
    /\ checks = 0
    /\ fp = NoFp
    /\ pre = NoPre
    /\ clean = FALSE
    /\ pruned = {}
    /\ upc = "idle"
    /\ cpc = "idle"
    /\ cop = "none"
    /\ q = NoQuery
    /\ dirh = NULL
    /\ songh = NULL
    /\ calls = <<>>
    /\ cret = FALSE
    /\ cerr = "none"
    /\ uaf = FALSE
    /\ freed = {}
    /\ InitDecoder

\* any backing path: a file of any kind and content, or none
InitFs ==
    /\ fs \in FsFacts
    /\ disk \in IF fs.exists THEN {"empty", "partial", "complete"} ELSE {"absent"}
    /\ fmtime = IF fs.exists THEN 1 ELSE 0

\* the main thread's Open, Save and Close and the update thread's changes of the
\* tree, one operation at a time, on any backing path
InitMain == InitBase /\ InitFs
NextMain ==
    \/ upc = "idle" /\ OpenCall
    \/ upc = "idle" /\ CloseCall
    \/ upc = "idle" /\ SaveCall
    \/ SaveLock
    \/ SavePrune
    \/ SaveFopen
    \/ SaveEncode
    \/ SaveClose
    \/ MainReturn
    \/ mpc = "idle" /\ UpdateLock
    \/ UpdateMutate
    \/ UpdateUnlock
SpecMain == InitMain /\ [][NextMain]_vars

\* Check alone, on every combination of answers of the filesystem
InitCheck ==
    /\ InitBase
    /\ fs \in FsAnswers
    /\ disk \in IF fs.exists THEN {"complete"} ELSE {"absent"}
    /\ fmtime = IF fs.exists THEN 1 ELSE 0
NextCheck == CheckCall \/ MainReturn
SpecCheck == InitCheck /\ [][NextCheck]_vars

\* an open database: a regular, readable and writable file has been loaded
GoodFile ==
    [exists |-> TRUE, statable |-> TRUE, isReg |-> TRUE, readable |-> TRUE,
     writable |-> TRUE, parentStatOk |-> TRUE, parentIsDir |-> TRUE, parentWX |-> TRUE]
InitServing ==
    /\ root = "live"
    /\ liveTrees = 1
    /\ tree \in SavedTrees
    /\ lock = "free"
    /\ mtime = 1
    /\ fs = GoodFile
    /\ disk = "complete"
    /\ fmtime = 1
    /\ mpc = "idle"
    /\ mop = "none"
    /\ mret = FALSE
    /\ merr = "none"
    /\ loadOk = "n/a"
    /\ warned = FALSE
    /\ checks = 0
    /\ fp = NoFp
    /\ pre = NoPre
    /\ clean = FALSE
    /\ pruned = {}
    /\ upc = "idle"
    /\ cpc = "idle"
    /\ cop = "none"
    /\ q = NoQuery
    /\ dirh = NULL
    /\ songh = NULL
    /\ calls = <<>>
    /\ cret = FALSE
    /\ cerr = "none"
    /\ uaf = FALSE
    /\ freed = {}
    /\ InitDecoder
\* the queries alone, on the tree a database file has been loaded from
ClientStep ==
    \/ GetSongLock \/ GetSongBody \/ LookupDirectoryLock \/ LookupDirectoryBody
    \/ VisitNoDirectory \/ VisitSong \/ VisitTarget \/ VisitWalkLock \/ VisitWalk
    \/ ClientReturn
NextVisit == GetSongCall \/ LookupDirectoryCall \/ VisitCall \/ ClientStep
SpecVisit == InitServing /\ [][NextVisit]_vars

\* Save next to the update thread, on an open database whose file can or cannot
\* be written
InitSave ==
    /\ root = "live"
    /\ liveTrees = 1
    /\ tree \in SavedTrees
    /\ lock = "free"
    /\ mtime = 1
    /\ fs \in {GoodFile, [GoodFile EXCEPT !.writable = FALSE]}
    /\ disk = "complete"
    /\ fmtime = 1
    /\ mpc = "idle"
    /\ mop = "none"
    /\ mret = FALSE
    /\ merr = "none"
    /\ loadOk = "n/a"
    /\ warned = FALSE
    /\ checks = 0
    /\ fp = NoFp
    /\ pre = NoPre
    /\ clean = FALSE
    /\ pruned = {}
    /\ upc = "idle"
    /\ cpc = "idle"
    /\ cop = "none"
    /\ q = NoQuery
    /\ dirh = NULL
    /\ songh = NULL
    /\ calls = <<>>
    /\ cret = FALSE
    /\ cerr = "none"
    /\ uaf = FALSE
    /\ freed = {}
    /\ InitDecoder
\* (the update thread makes one change of the tree between two prunes)
NextSave ==
    \/ SaveCall \/ SaveLock \/ SavePrune \/ SaveFopen \/ SaveEncode \/ SaveClose
    \/ MainReturn
    \/ UpdateLock
    \/ clean /\ UpdateMutate
    \/ UpdateUnlock
SpecSave == InitSave /\ [][NextSave]_vars

\* the client thread's queries next to the main thread's Save
NextLock ==
    \/ GetSongCall \/ LookupDirectoryCall \/ VisitCallLock \/ ClientStep
    \/ SaveCall \/ SaveLock \/ SavePrune \/ SaveFopen \/ SaveEncode \/ SaveClose
    \/ MainReturn
SpecLock == InitSave /\ [][NextLock]_vars

\* the client thread's queries next to the main thread's Close (and Open)
NextClose ==
    \/ GetSongCall \/ LookupDirectoryCall \/ VisitCallLock \/ ClientStep
    \/ CloseCall \/ OpenCall \/ MainReturn
SpecClose == InitServing /\ [][NextClose]_vars

\* the decoder thread alone: mikmod_decoder_file_decode, once per song
InitDecode == InitBase /\ fs = GoodFile /\ disk = "complete" /\ fmtime = 1
NextDecode ==
    \/ PlayerLoad \/ DecoderInitialized \/ PlayerStart \/ LoopTest \/ DecodeFrame
    \/ PlayerStop \/ PlayerFree \/ DecodeReturn
SpecDecode == InitDecode /\ [][NextDecode]_vars

\* the client thread next to the update thread, on an open database
Init == InitServing
Next ==
    \/ GetSongCall \/ LookupDirectoryCall \/ VisitCallConc \/ ClientStep
    \/ UpdateLock \/ UpdateMutate \/ UpdateUnlock
Spec == Init /\ [][Next]_vars
(***************************************************************************)
(* The claims.                                                             *)
(***************************************************************************)
SaveFailed == mpc = "ret" /\ mop = "Save" /\ ~mret
SaveSucceeded == mpc = "ret" /\ mop = "Save" /\ mret
OpenLoadFailed == mpc = "ret" /\ mop = "Open" /\ loadOk = "no"

RECURSIVE HasContent(_, _)
HasContent(t, d) ==
    \/ t.songs[d] # <<>>
    \/ t.playlists[d] # <<>>
    \/ \E k \in Range(t.children[d]) : HasContent(t, k)

\* C1 as claimed: when Save returns an error, the tree is exactly the tree that
\* existed when Save was called (nothing pruned, nothing reordered).
C1_Original == SaveFailed => tree = pre.tree

\* C1 as amended: when Save returns an error, the tree is the tree that existed
\* when Save was called, pruned and sorted: the directories with no song and no
\* playlist anywhere below them are gone, no other node has been added or
\* removed, the child directories and the songs of every directory are in
\* order, and the recorded mtime is unchanged.
C1_Amended ==
    SaveFailed =>
        /\ DirsIn(tree) = {d \in DirsIn(pre.tree) : HasContent(pre.tree, d)}
        /\ \A d \in AllDirs :
              /\ Range(tree.songs[d]) = Range(pre.tree.songs[d])
              /\ tree.playlists[d] = pre.tree.playlists[d]
              /\ Range(tree.children[d]) \subseteq Range(pre.tree.children[d])
              /\ IsSorted(tree.children[d])
              /\ IsSorted(tree.songs[d])
        /\ mtime = pre.mtime

\* C1 witness: a Save has failed after it removed a directory and reordered songs
C1_Witness ==
    /\ SaveFailed
    /\ pruned # {}
    /\ ~IsSorted(pre.tree.songs[SongHome])
    /\ tree.songs[SongHome] # pre.tree.songs[SongHome]

\* C4: when Load fails in Open and Check accepts the path, Open returns true with
\* *error_r unset (the load error is only a warning), mtime is 0 and root is a
\* fresh empty directory, the only tree there is.
C4_OpenFallback ==
    (OpenLoadFailed /\ Check(fs) = "Ok") =>
        /\ mret
        /\ merr = "none"
        /\ warned
        /\ mtime = 0
        /\ root = "live"
        /\ liveTrees = 1
        /\ tree = directory_new_root

\* C4 witness: Open has fallen back to an empty root over a file that does not parse
C4_Witness == OpenLoadFailed /\ Check(fs) = "Ok" /\ mret /\ disk = "partial"

\* C5: when Load fails in Open and Check rejects the path, Open returns false, the
\* caller's error is Check's error and never Load's, and no tree exists.
C5_OpenRejected ==
    (OpenLoadFailed /\ Check(fs) # "Ok") =>
        /\ ~mret
        /\ merr = Check(fs)
        /\ merr \notin {"none", "LoadOpenFailed", "LoadParseFailed"}
        /\ root # "live"
        /\ liveTrees = 0

\* C5 witness: Open has failed on a file that is there but cannot be written
C5_Witness == OpenLoadFailed /\ ~mret /\ merr = "NotReadWritable"

\* C7: after Save's prune no directory but the root is without child directories,
\* songs and playlists, and a Save that follows a Save with no change of the
\* tree in between removes no directory.
AfterPrune == mop = "Save" /\ mpc \in {"s_fopen", "s_encode", "s_close", "ret"}
C7_Pruned ==
    AfterPrune =>
        /\ \A d \in DirsIn(tree) : ~directory_is_empty(tree, d)
        /\ pre.clean => pruned = {}

\* C7 witness: a first Save has removed "a" together with its only child "b" and
\* kept "c"; and (the other case) a second Save has run on the unchanged tree
C7_Witness == AfterPrune /\ pruned = {"a", "b"} /\ DirsIn(tree) = {"c"}
C7_WitnessSecond == AfterPrune /\ pre.clean /\ DirsIn(tree) # {}

\* C8 as claimed: Save returns true only if the whole encoded tree is in the
\* backing file, the data flushed by fclose included.
C8_Original == SaveSucceeded => disk = "complete"

\* C9 as claimed: after a successful Load (in Open) and after a successful Save
\* the recorded mtime is the file's mtime; after a failed Save it is unchanged.
C9_Original ==
    /\ (mpc = "ret" /\ mop = "Open" /\ loadOk = "yes") => mtime = fmtime
    /\ SaveSucceeded => mtime = fmtime
    /\ SaveFailed => mtime = pre.mtime

\* C9 as amended: after a successful Load (in Open) and after a successful Save
\* the recorded mtime is the file's mtime if stat() of the path succeeds; if it
\* fails the mtime stays what it was (0 in Open, the value before Save); after
\* a failed Save it is unchanged.
C9_Amended ==
    /\ (mpc = "ret" /\ mop = "Open" /\ loadOk = "yes") =>
          mtime = IF stat_ok(fs) THEN fmtime ELSE 0
    /\ SaveSucceeded => mtime = IF stat_ok(fs) THEN fmtime ELSE pre.mtime
    /\ SaveFailed => mtime = pre.mtime

\* C9 witness: a successful Save has moved the recorded mtime to the file's
C9_Witness == SaveSucceeded /\ mtime = fmtime /\ mtime # pre.mtime /\ pre.mtime # 0

\* C2 as claimed: from the moment Visit has resolved its directory until the walk
\* ends, the directory is still in the tree (nobody could take the lock and
\* remove it).
C2_Original ==
    (cop = "Visit" /\ cpc \in {"v_decide", "v_walk_lock", "v_walk"} /\ dirh # NULL) =>
        "dir" \notin freed

\* C3 as claimed: a handle the caller has received from GetSong or
\* LookupDirectory refers to a node that is still in the tree.
C3_Original ==
    (cpc = "ret" /\ cop \in {"GetSong", "LookupDirectory"}) => freed = {}

RECURSIVE PathOf(_)
PathOf(d) == IF d = Root THEN <<>> ELSE Append(PathOf(DirHome[d]), d)
DirAt(t, uri) == \E d \in AllDirs : InTree(t, d) /\ PathOf(d) = uri
SongsAt(t, uri) ==
    {x \in Songs : /\ uri = Append(PathOf(SongHome), x)
                   /\ InTree(t, SongHome)
                   /\ x \in Range(t.songs[SongHome])}
VisitReturned == cop = "Visit" /\ cpc = "ret"

\* C6: in a Visit, the visitor invocation that fails is the last one, and Visit
\* then returns that failure; with songs [s1, s2, s3] and a song visitor failing
\* on s2 the invocations are exactly [s1, s2].
C6_AbortOnFailure ==
    cop = "Visit" =>
        /\ \A i \in 1..Len(calls) : calls[i] = q.failOn => i = Len(calls)
        /\ (cpc = "ret" /\ q.failOn \in Range(calls)) => (~cret /\ cerr = "visitor")
        /\ (/\ cpc = "ret"
            /\ q.uri = PathOf(SongHome)
            /\ tree.songs[SongHome] = <<"s1", "s2", "s3">>
            /\ q.vs /\ ~q.vd /\ ~q.vp /\ ~q.match.present
            /\ q.failOn = "s2") => calls = <<"s1", "s2">>

\* C6 witness: the walk has stopped at s2 of [s1, s2, s3]
C6_Witness ==
    /\ VisitReturned
    /\ tree.songs[SongHome] = <<"s1", "s2", "s3">>
    /\ q.failOn = "s2"
    /\ calls = <<"s1", "s2">>
    /\ ~cret

\* C10: when the uri of a Visit names no directory, then if a song visitor was
\* supplied, a song has that uri and selection.match is absent or satisfied by
\* it, the song visitor is invoked once, on that song, and Visit returns its
\* result; otherwise no visitor is invoked and Visit fails with NotFound
\* "No such directory".
C10_SongFallback ==
    (VisitReturned /\ ~DirAt(tree, q.uri)) =>
        IF q.vs /\ \E x \in SongsAt(tree, q.uri) : ~q.match.present \/ x \in q.match.songs
        THEN /\ \E x \in SongsAt(tree, q.uri) : calls = <<x>>
             /\ cret = (q.failOn \notin Range(calls))
             /\ cerr = IF cret THEN "none" ELSE "visitor"
        ELSE /\ calls = <<>>
             /\ ~cret
             /\ cerr = "NotFound: No such directory"

\* C10 witness: Visit of the uri of s2 under a match that only s1 satisfies has
\* failed with NotFound although the song is there
C10_Witness ==
    /\ VisitReturned
    /\ q.uri = <<"a", "s2">>
    /\ SongsAt(tree, q.uri) = {"s2"}
    /\ q.vs
    /\ q.match.present
    /\ calls = <<>>
    /\ cerr = "NotFound: No such directory"
\* C10, the other case: the song has been visited and Visit has returned true
C10_WitnessVisited == VisitReturned /\ q.uri = <<"a", "s1">> /\ calls = <<"s1">> /\ cret

Count(s, x) == Cardinality({i \in 1..Len(s) : s[i] = x})
\* the directory a uri names, by the paths of the universe
TargetOf(uri) == CHOOSE d \in AllDirs : PathOf(d) = uri
ChildDirsOf(t, d) == {k \in DirNames : DirHome[k] = d /\ InTree(t, k)}
SongsOf(t, d) == IF d = SongHome THEN {x \in Songs : x \in SongsAt(t, Append(PathOf(d), x))} ELSE {}
PlaylistsOf(t, d) == {p \in Playlists : PlaylistHome[p] = d /\ p \in Range(t.playlists[d])}

\* C11: a Visit with a non-recursive selection on a directory invokes no visitor
\* on anything but the directory's immediate child directories, songs and
\* playlists (no grandchild, not the directory itself), none of them twice;
\* and when it returns true it has invoked onDirectory once on every immediate
\* child directory (if supplied) and onSong once on every immediate song that
\* satisfies selection.match (if supplied), and on no other song.
C11_NonRecursive ==
    (VisitReturned /\ ~q.recursive /\ DirAt(tree, q.uri)) =>
        LET d == TargetOf(q.uri)
            kids == ChildDirsOf(tree, d)
            ss == {x \in SongsOf(tree, d) : ~q.match.present \/ x \in q.match.songs}
            ps == PlaylistsOf(tree, d)
        IN /\ Range(calls) \subseteq kids \cup ss \cup ps
           /\ \A x \in Range(calls) : Count(calls, x) = 1
           /\ cret =>
                 /\ \A k \in kids : Count(calls, k) = IF q.vd THEN 1 ELSE 0
                 /\ \A x \in ss : Count(calls, x) = IF q.vs THEN 1 ELSE 0
                 /\ \A x \in SongsOf(tree, d) \ ss : Count(calls, x) = 0

\* C11 witness: a non-recursive Visit of "a", which holds the directory "b" (with
\* its playlist p2) and songs of which the match takes only s1, has visited "b"
\* and s1 once each and nothing inside "b"
C11_Witness ==
    /\ VisitReturned /\ cret
    /\ ~q.recursive /\ q.vd /\ q.vs /\ q.vp /\ q.match.present
    /\ q.uri = <<"a">>
    /\ "p2" \in Range(tree.playlists["b"])
    /\ Cardinality(SongsOf(tree, "a")) >= 2
    /\ Range(calls) = {"b", "s1"}
    /\ Len(calls) = 2

GetSongReturned == cop = "GetSong" /\ cpc = "ret"

\* C12: GetSong(uri, error_r) on an open database returns NULL and sets the
\* NotFound error "No such song" when no song has the uri, and returns that
\* song and sets no error when one has; it never returns NULL with no error set.
C12_GetSongNotFound ==
    GetSongReturned =>
        /\ IF SongsAt(tree, q.uri) = {}
           THEN songh = NULL /\ ~cret /\ cerr = "NotFound: No such song"
           ELSE songh \in SongsAt(tree, q.uri) /\ cret /\ cerr = "none"
        /\ songh = NULL => cerr # "none"

\* C12 witness: GetSong of the uri of s2 in a directory that holds other songs but
\* not s2 has returned NULL with the NotFound error
C12_Witness ==
    /\ GetSongReturned
    /\ q.uri = <<"a", "s2">>
    /\ "s1" \in Range(tree.songs["a"])
    /\ songh = NULL
    /\ cerr = "NotFound: No such song"
\* C12, the other case: the song is there and is returned with no error
C12_WitnessFound == GetSongReturned /\ q.uri = <<"a", "s2">> /\ songh = "s2" /\ cerr = "none"

CheckReturned == mop = "Check" /\ mpc = "ret"

\* C13: Check gives the outcome of the decision table for every combination of
\* filesystem facts.  Path absent: parent cannot be stat'ed -> ParentUnstatable,
\* else parent not a directory -> ParentNotDirectory, else parent not
\* traversable-and-writable -> ParentNotWritable, else Ok.  Path present: cannot
\* be stat'ed -> PathUnstatable, else not a regular file -> NotRegularFile, else
\* not readable-and-writable -> NotReadWritable, else Ok.  The rows exclude each
\* other, and an error is set if and only if Check returns false.
C13_CheckTable ==
    CheckReturned =>
        LET rows ==
              <<[when |-> ~fs.exists /\ ~fs.parentStatOk, err |-> "ParentUnstatable"],
                [when |-> ~fs.exists /\ fs.parentStatOk /\ ~fs.parentIsDir,
                 err |-> "ParentNotDirectory"],
                [when |-> ~fs.exists /\ fs.parentStatOk /\ fs.parentIsDir /\ ~fs.parentWX,
                 err |-> "ParentNotWritable"],
                [when |-> ~fs.exists /\ fs.parentStatOk /\ fs.parentIsDir /\ fs.parentWX,
                 err |-> "none"],
                [when |-> fs.exists /\ ~fs.statable, err |-> "PathUnstatable"],
                [when |-> fs.exists /\ fs.statable /\ ~fs.isReg, err |-> "NotRegularFile"],
                [when |-> fs.exists /\ fs.statable /\ fs.isReg
                          /\ ~(fs.readable /\ fs.writable),
                 err |-> "NotReadWritable"],
                [when |-> fs.exists /\ fs.statable /\ fs.isReg /\ fs.readable /\ fs.writable,
                 err |-> "none"]>>
        IN /\ Cardinality({i \in 1..8 : rows[i].when}) = 1
           /\ \A i \in 1..8 : rows[i].when => merr = rows[i].err
           /\ mret = (merr = "none")

\* C13 witness: on a path that is not a regular file and cannot be written either,
\* Check has reported the file type, the earlier test
C13_Witness ==
    /\ CheckReturned
    /\ fs.exists /\ fs.statable /\ ~fs.isReg /\ ~fs.writable
    /\ ~mret
    /\ merr = "NotRegularFile"
\* C13, another row: no file, and a parent that is neither stat'able nor a directory
C13_WitnessParent ==
    CheckReturned /\ ~fs.exists /\ ~fs.parentStatOk /\ ~fs.parentIsDir /\ merr = "ParentUnstatable"

\* C14 as claimed: the traversal by which Save serializes the tree never happens
\* while a mutator is inside its critical section.
C14_Original == [][(mpc = "s_encode" /\ mpc' = "s_close") => lock # "update"]_vars

\* C15: the lock is held by the client thread exactly while it is between the
\* db_lock and the db_unlock of a lookup or of the walk, and by the main thread
\* exactly while Save prunes and sorts.  So no thread is at a db_lock while it
\* holds the lock (Visit's internal LookupDirectory and GetSong calls included),
\* and every operation returns without it, whatever its result.
C15_LockDiscipline ==
    /\ (lock = "client") = (cpc \in {"gs_body", "ld_body", "v_walk"})
    /\ (lock = "main") = (mpc = "s_prune")
    /\ lock \in {"free", "client", "main"}
    /\ cpc \in {"ld_lock", "gs_lock", "v_walk_lock", "v_decide", "v_song", "ret", "idle"}
          => lock # "client"
    /\ mpc \in {"s_lock", "s_fopen", "s_encode", "s_close", "ret", "idle"} => lock # "main"

\* C15 witness: a Visit has returned a visitor's failure from its walk and a Save
\* has returned an error, and the lock is free
C15_Witness ==
    /\ VisitReturned /\ ~cret /\ cerr = "visitor" /\ Len(calls) >= 2
    /\ SaveFailed
    /\ lock = "free"
\* C15, other paths: Visit is inside its internal GetSong while Save holds the
\* lock; and a NotFound has been returned
C15_WitnessInner == cop = "Visit" /\ cpc = "gs_lock" /\ lock = "main"
C15_WitnessNotFound == VisitReturned /\ cerr = "NotFound: No such directory" /\ lock = "free"

\* C16 as claimed: the tree is never released while a thread is between the
\* db_lock and the db_unlock of a lookup or a walk, and no operation reads a
\* released node.
C16_Original ==
    /\ lock = "client" => root = "live"
    /\ ~uaf

\* C17: in a Visit whose target directory is found, once Visit has decided about
\* the target, onDirectory has been invoked on the target itself if and only if
\* the selection is recursive and an onDirectory visitor was supplied; it is
\* then the first invocation and the only one on the target; and if it failed,
\* Visit is never at the walk or at its db_lock, does not hold the lock, and
\* returns false with that one invocation.
C17_TargetFirst ==
    (cop = "Visit" /\ DirAt(tree, q.uri)) =>
        LET d == TargetOf(q.uri)
            decided == cpc \in {"v_walk_lock", "v_walk", "ret"}
            onTarget == q.recursive /\ q.vd
        IN /\ decided => ((d \in Range(calls)) = onTarget)
           /\ (decided /\ onTarget) => (calls[1] = d /\ Count(calls, d) = 1)
           /\ (onTarget /\ q.failOn = d) =>
                 /\ cpc \notin {"v_walk_lock", "v_walk"}
                 /\ cpc \notin {"ld_lock", "ld_body"} => lock = "free"
                 /\ cpc = "ret" => (calls = <<d>> /\ ~cret /\ cerr = "visitor")

\* C17 witness: a recursive Visit of "a", which holds songs, has returned the
\* failure of onDirectory on "a" and has invoked nothing else
C17_Witness ==
    /\ VisitReturned
    /\ q.recursive /\ q.vd /\ q.vs
    /\ q.uri = <<"a">> /\ q.failOn = "a"
    /\ tree.songs["a"] # <<>>
    /\ calls = <<"a">>
    /\ ~cret
\* C17, the other cases: the target came first and the walk followed; and a
\* non-recursive Visit with an onDirectory visitor left the target out
C17_WitnessWalk == VisitReturned /\ cret /\ q.uri = <<"a">> /\ Len(calls) >= 3 /\ calls[1] = "a"
C17_WitnessFlat ==
    VisitReturned /\ cret /\ ~q.recursive /\ q.vd /\ q.uri = <<"a">> /\ calls = <<"b">>

OpenReturned == mop = "Open" /\ mpc = "ret"

\* C18: when Load succeeds, Open returns true with the loaded tree and has not
\* run Check, whatever Check would say of the path; when Load fails, Open has
\* run Check exactly once and returns what Check returned.
C18_CheckOnlyAfterFailedLoad ==
    OpenReturned =>
        /\ loadOk \in {"yes", "no"}
        /\ loadOk = "yes" =>
              /\ checks = 0
              /\ mret /\ merr = "none" /\ ~warned
              /\ root = "live" /\ tree \in SavedTrees
        /\ loadOk = "no" =>
              /\ checks = 1
              /\ mret = (Check(fs) = "Ok")

\* C18 witness: Open has succeeded, with a tree that holds something, on a file
\* that can be read but not written, which Check rejects
C18_Witness ==
    /\ OpenReturned
    /\ loadOk = "yes"
    /\ fs.readable /\ ~fs.writable
    /\ Check(fs) = "NotReadWritable"
    /\ mret
    /\ tree # directory_new_root
    /\ checks = 0
\* C18, the other case: Load failed and Check ran once
C18_WitnessChecked == OpenReturned /\ loadOk = "no" /\ checks = 1 /\ ~mret

\* C19 as claimed: in every state of the Open / Close lifecycle the root pointer
\* is non-null if and only if it points to a tree that has not been released
\* (so that assert(root != NULL) stops every call on a database that is not
\* open).
C19_Original == (root # "NULL") = (root = "live")

CallsOf(name) == {i \in 1..Len(dlog) : dlog[i].call = name}
DecodeDone == dpc = "done"

\* C20: in mikmod_decoder_file_decode, if the module fails to load, no call is
\* made at all (no decoder_initialized, no decoder_data, nothing to stop or
\* free).  Otherwise decoder_initialized is called once and before every
\* decoder_data; no decoder_data follows a decoder_data that returned a command
\* other than NONE or after which the player was not active, and none is made
\* when the player is not active after Player_Start; the function goes on
\* decoding as long as neither has happened; and when it returns it has called
\* Player_Stop once and then Player_Free once, as its last two calls.
C20_DecodeProtocol ==
    LET inits == CallsOf("decoder_initialized")
        datas == CallsOf("decoder_data")
        starts == CallsOf("Player_Start")
        stops == CallsOf("Player_Stop")
        frees == CallsOf("Player_Free")
        ended(i) == dlog[i].cmd # "NONE" \/ ~dlog[i].active
    IN /\ handle = "null" => dlog = <<>>
       /\ Cardinality(inits) <= 1
       /\ \A i \in datas : \E j \in inits : j < i
       /\ \A i \in datas : \A j \in datas \cup starts : j < i => ~ended(j)
       /\ \A i \in stops : \E j \in datas \cup starts : j = i - 1 /\ ended(j)
       /\ Cardinality(stops) <= 1 /\ Cardinality(frees) <= 1
       /\ \A i \in frees : i = Len(dlog) /\ i - 1 \in stops
       /\ (DecodeDone /\ handle # "null") =>
             /\ handle = "freed"
             /\ Cardinality(inits) = 1
             /\ stops = {Len(dlog) - 1}
             /\ frees = {Len(dlog)}

\* C20 witness: two frames were decoded, the second decoder_data returned STOP
\* while the player was still active, and the function has returned after
\* Player_Stop and Player_Free
C20_Witness ==
    /\ DecodeDone
    /\ Len(dlog) = 6
    /\ dlog[4].call = "decoder_data" /\ dlog[4].cmd = "STOP" /\ dlog[4].active
    /\ dlog[5].call = "Player_Stop"
    /\ dlog[6].call = "Player_Free"
\* C20, the other exits: the module did not load; the player ran out
C20_WitnessNoModule == DecodeDone /\ handle = "null" /\ dlog = <<>>
C20_WitnessEnded ==
    /\ DecodeDone
    /\ handle = "freed"
    /\ dcmd = "NONE"
    /\ CallsOf("decoder_data") # {}
====
